---- MODULE Spec2Model ----
(***************************************************************************)
(* Model of the IPADIC-NEologd dictionary builder (src/lib.rs):            *)
(* build_dictionary = build_chardef; build_unk; build_dict;                *)
(* build_cost_matrix, run sequentially over the contents of an input       *)
(* directory and writing seven files into an output directory.             *)
(*                                                                         *)
(* Text is modelled as sequences of Unicode code points, files as          *)
(* sequences of bytes.                                                     *)
(***************************************************************************)
EXTENDS Integers, Sequences, FiniteSets, TLC

VARIABLES
    csv_files,       \* input directory: the *.csv files in glob order, each a sequence of lines
    matrix_def,      \* input directory: the lines of matrix.def
    pc,              \* position of build_dictionary
    result,          \* "running", "Ok", an error kind, or a panic
    files,           \* output directory: file name -> NoFile or the bytes on disk
    wtr,             \* bytes held by each BufWriter and not yet flushed
    lines,           \* build_dict: normalised lines of all csv files
    rows,            \* build_dict: Vec<CsvRow>
    word_entry_map,  \* build_dict: BTreeMap<String, Vec<WordEntry>>
    words_buffer,    \* build_dict: Vec<u8> of serialised detail records
    keyset,          \* build_dict: Vec<(&[u8], u32)>
    id,              \* build_dict: running entry id
    lastlen,         \* build_dict: running total printed at the end
    idx,             \* position of the loop being executed
    mlines,          \* build_cost_matrix: lines parsed into Vec<i32>
    costs            \* build_cost_matrix: Vec<i16>

vars == <<csv_files, matrix_def, pc, result, files, wtr, lines, rows,
          word_entry_map, words_buffer, keyset, id, lastlen, idx, mlines, costs>>

(***************************************************************************)
(* Bounds of the model                                                     *)
(***************************************************************************)
MaxRows == 3          \* csv lines in an input of Spec
MaxMatrixLines == 3   \* lines of matrix.def in an input of SpecMatrix
BoundaryExtra == 1    \* rows added to the 30..32 equal rows in SpecBoundary

(***************************************************************************)
(* Integer widths and byte encodings                                       *)
(***************************************************************************)
Pow2(n) == 2 ^ n

\* TLC's integers are 32-bit signed: every quantity of the model stays below 2^31,
\* and TLC stops with an overflow error if an evaluation leaves that range.
\* "as u32" of an i32: the identity on non-negative values, x + 2^32 otherwise
U32(x) == IF x >= 0 THEN x ELSE x + Pow2(32)

U16(x) == x % Pow2(16)

I16(x) == LET u == x % Pow2(16) IN IF u >= Pow2(15) THEN u - Pow2(16) ELSE u

I16Max == Pow2(15) - 1

RECURSIVE BitOr(_, _)
BitOr(a, b) ==
    IF a = 0 THEN b
    ELSE IF b = 0 THEN a
    ELSE (IF a % 2 = 1 \/ b % 2 = 1 THEN 1 ELSE 0) + 2 * BitOr(a \div 2, b \div 2)

\* byteorder::LittleEndian: the w bytes of the unsigned value n, least significant first
RECURSIVE LittleEndian(_, _)
LittleEndian(n, w) ==
    IF w = 0 THEN <<>> ELSE <<n % 256>> \o LittleEndian(n \div 256, w - 1)

RECURSIVE FromLittleEndian(_)
FromLittleEndian(bs) ==
    IF bs = <<>> THEN 0 ELSE Head(bs) + 256 * FromLittleEndian(Tail(bs))

Slice(s, from, len) == [k \in 1..len |-> s[from + k - 1]]

RECURSIVE Flatten(_)
Flatten(ss) == IF ss = <<>> THEN <<>> ELSE Head(ss) \o Flatten(Tail(ss))

\* str::as_bytes of one code point
Utf8Char(c) ==
    IF c < 128 THEN <<c>>
    ELSE IF c < 2048 THEN <<192 + (c \div 64), 128 + (c % 64)>>
    ELSE IF c < 65536 THEN <<224 + (c \div 4096), 128 + ((c \div 64) % 64), 128 + (c % 64)>>
    ELSE <<240 + (c \div 262144), 128 + ((c \div 4096) % 64),
           128 + ((c \div 64) % 64), 128 + (c % 64)>>

as_bytes(s) == Flatten([k \in 1..Len(s) |-> Utf8Char(s[k])])

RECURSIVE FromUtf8(_)
FromUtf8(bs) ==
    IF bs = <<>> THEN <<>>
    ELSE LET b == bs[1] IN
         IF b < 128 THEN <<b>> \o FromUtf8(SubSeq(bs, 2, Len(bs)))
         ELSE IF b < 224
              THEN <<(b - 192) * 64 + (bs[2] - 128)>> \o FromUtf8(SubSeq(bs, 3, Len(bs)))
         ELSE IF b < 240
              THEN <<(b - 224) * 4096 + (bs[2] - 128) * 64 + (bs[3] - 128)>>
                   \o FromUtf8(SubSeq(bs, 4, Len(bs)))
         ELSE <<(b - 240) * 262144 + (bs[2] - 128) * 4096 + (bs[3] - 128) * 64 + (bs[4] - 128)>>
              \o FromUtf8(SubSeq(bs, 5, Len(bs)))

\* bincode (fixed-width, little-endian): a String is a u64 byte length and the bytes
SerializeString(s) == LET b == as_bytes(s) IN LittleEndian(Len(b), 8) \o b

\* bincode: a Vec<String> is a u64 element count and the elements
SerializeWord(word) ==
    LittleEndian(Len(word), 8) \o Flatten([k \in 1..Len(word) |-> SerializeString(word[k])])

\* the reader of dict.words: n strings starting at 0-based byte position off
RECURSIVE DeserializeStrings(_, _, _)
DeserializeStrings(buf, off, n) ==
    IF n = 0 THEN <<>>
    ELSE LET l == FromLittleEndian(Slice(buf, off + 1, 8)) IN
         <<FromUtf8(Slice(buf, off + 9, l))>> \o DeserializeStrings(buf, off + 8 + l, n - 1)

DeserializeWord(buf, off) ==
    DeserializeStrings(buf, off + 8, FromLittleEndian(Slice(buf, off + 1, 8)))

(***************************************************************************)
(* Strings: ordering, splitting, number parsing                            *)
(***************************************************************************)
\* Ord for str: lexicographic by bytes, which for UTF-8 is by code point
StrLess(s, t) ==
    \E k \in 0..Len(s) :
        /\ k <= Len(t)
        /\ \A j \in 1..k : s[j] = t[j]
        /\ \/ k = Len(s) /\ k < Len(t)
           \/ k < Len(s) /\ k < Len(t) /\ s[k + 1] < t[k + 1]

\* str::split(sep): the fields between separators, empty ones kept
RECURSIVE Split(_, _)
Split(s, sep) ==
    IF \A k \in 1..Len(s) : s[k] # sep THEN <<s>>
    ELSE LET p == CHOOSE k \in 1..Len(s) : s[k] = sep /\ \A j \in 1..(k - 1) : s[j] # sep
         IN <<SubSeq(s, 1, p - 1)>> \o Split(SubSeq(s, p + 1, Len(s)), sep)

Comma == 44

Space == 32

\* str::split_whitespace: the non-empty runs between blanks
split_whitespace(s) == SelectSeq(Split(s, Space), LAMBDA f : f # <<>>)

IsDigit(c) == c >= 48 /\ c <= 57

RECURSIVE DigitsValue(_)
DigitsValue(ds) ==
    IF ds = <<>> THEN 0
    ELSE 10 * DigitsValue(SubSeq(ds, 1, Len(ds) - 1)) + (ds[Len(ds)] - 48)

RECURSIVE StripZeros(_)
StripZeros(ds) == IF Len(ds) > 1 /\ ds[1] = 48 THEN StripZeros(Tail(ds)) ELSE ds

\* whether the number written with the digits ds is at most the one written with max
DigitsAtMost(ds, max) ==
    LET t == StripZeros(ds)
    IN Len(t) < Len(max) \/ (Len(t) = Len(max) /\ ~StrLess(max, t))

\* 4294967295, 2147483647 and 2147483648 in decimal digits
U32MaxDigits == <<52, 50, 57, 52, 57, 54, 55, 50, 57, 53>>

I32MaxDigits == <<50, 49, 52, 55, 52, 56, 51, 54, 52, 55>>

I32MinDigits == <<50, 49, 52, 55, 52, 56, 51, 54, 52, 56>>

ParseOk(v) == [ok |-> TRUE, val |-> v]

ParseFail == [ok |-> FALSE, val |-> 0]

\* u32::from_str: an optional '+', then one or more digits, value below 2^32
ParseU32(s) ==
    LET ds == IF s # <<>> /\ s[1] = 43 THEN Tail(s) ELSE s
    IN IF ds = <<>> \/ \E k \in 1..Len(ds) : ~IsDigit(ds[k]) THEN ParseFail
       ELSE IF ~DigitsAtMost(ds, U32MaxDigits) THEN ParseFail
       ELSE ParseOk(DigitsValue(ds))

\* i32::from_str: an optional '+' or '-', then one or more digits, value in -2^31 .. 2^31-1
ParseI32(s) ==
    LET neg == s # <<>> /\ s[1] = 45
        ds == IF s # <<>> /\ (s[1] = 43 \/ s[1] = 45) THEN Tail(s) ELSE s
    IN IF ds = <<>> \/ \E k \in 1..Len(ds) : ~IsDigit(ds[k]) THEN ParseFail
       ELSE IF ~DigitsAtMost(ds, IF neg THEN I32MinDigits ELSE I32MaxDigits) THEN ParseFail
       ELSE ParseOk(IF neg THEN 0 - DigitsValue(ds) ELSE DigitsValue(ds))

(***************************************************************************)
(* Record Parser: CsvRow::from_line                                        *)
(***************************************************************************)
FieldCount == 13

CsvRow(fields, left, right, cost) ==
    [surface_form |-> fields[1], left_id |-> left, right_id |-> right, word_cost |-> cost,
     pos_level1 |-> fields[5], pos_level2 |-> fields[6],
     pos_level3 |-> fields[7], pos_level4 |-> fields[8],
     conjugation_type |-> fields[9], conjugate_form |-> fields[10],
     base_form |-> fields[11], reading |-> fields[12], pronunciation |-> fields[13]]

NoRow == CsvRow([k \in 1..FieldCount |-> <<>>], 0, 0, 0)

\* The struct literal is evaluated field by field: fields[n] panics when the line
\* has no such field, a numeric field that does not parse returns Err(Parse).
from_line(line) ==
    LET fields == Split(line, Comma)
        n == Len(fields)
    IN IF n < 2 THEN [tag |-> "panic", field |-> "", row |-> NoRow]
       ELSE IF ~ParseU32(fields[2]).ok THEN [tag |-> "Parse", field |-> "left_id", row |-> NoRow]
       ELSE IF n < 3 THEN [tag |-> "panic", field |-> "", row |-> NoRow]
       ELSE IF ~ParseU32(fields[3]).ok THEN [tag |-> "Parse", field |-> "right_id", row |-> NoRow]
       ELSE IF n < 4 THEN [tag |-> "panic", field |-> "", row |-> NoRow]
       ELSE IF ~ParseI32(fields[4]).ok THEN [tag |-> "Parse", field |-> "word_cost", row |-> NoRow]
       ELSE IF n < FieldCount THEN [tag |-> "panic", field |-> "", row |-> NoRow]
       ELSE [tag |-> "Ok", field |-> "",
             row |-> CsvRow(fields, ParseU32(fields[2]).val, ParseU32(fields[3]).val,
                            ParseI32(fields[4]).val)]

\* lines.iter().map(from_line).collect::<Result<_, _>>(): the lines are parsed in
\* order and the first one that does not give Ok ends the collection.
ParseAllLenient(ls) ==
    [tag |-> "Ok",
     rows |-> LET ok == SelectSeq(ls, LAMBDA l : from_line(l).tag = "Ok")
              IN [k \in 1..Len(ok) |-> from_line(ok[k]).row]]

ParseAll(ls) ==
    LET bad == {k \in 1..Len(ls) : from_line(ls[k]).tag # "Ok"}
    IN IF bad = {} THEN [tag |-> "Ok", rows |-> [k \in 1..Len(ls) |-> from_line(ls[k]).row]]
       ELSE LET first == CHOOSE k \in bad : \A j \in bad : k <= j
            IN [tag |-> from_line(ls[first]).tag, rows |-> <<>>]

\* the character normalisation applied to every line before parsing
NormalizeChar(c) ==
    IF c = 8213 THEN 8212
    ELSE IF c = 65374 THEN 12316
    ELSE c

NormalizeLine(line) == [k \in 1..Len(line) |-> NormalizeChar(line[k])]

\* flat_map over the files' lines, each line normalised
ReadLines(filesData) == LET all == Flatten(filesData)
                        IN [k \in 1..Len(all) |-> NormalizeLine(all[k])]

(***************************************************************************)
(* Entry Aggregator                                                        *)
(***************************************************************************)
SKIP_WORDS ==
    << <<12459, 12502, 12471, 12461, 12460, 12452, 12471, 12515>>,
       <<12479, 12459, 12521, 12485, 12459, 12459, 12466, 12461, 12480, 12531,
         12461, 12475, 12452>> >>

IsSkipWordNever(s) == FALSE

IsSkipWord(s) == \E k \in 1..Len(SKIP_WORDS) : SKIP_WORDS[k] = s

\* slice::sort_by_key is a stable sort: a row goes behind every row whose key is
\* not greater than its own
RECURSIVE InsertRow(_, _)
InsertRow(sorted, r) ==
    IF sorted = <<>> THEN <<r>>
    ELSE LET last == sorted[Len(sorted)] IN
         IF StrLess(r.surface_form, last.surface_form)
         THEN Append(InsertRow(SubSeq(sorted, 1, Len(sorted) - 1), r), last)
         ELSE Append(sorted, r)

SortByKeyNoSort(rs) == rs

RECURSIVE SortByKey(_)
SortByKey(rs) ==
    IF rs = <<>> THEN <<>>
    ELSE InsertRow(SortByKey(SubSeq(rs, 1, Len(rs) - 1)), rs[Len(rs)])

WordEntryOffByOne(row_id, row) ==
    [word_id |-> [id |-> U32(row_id + 1), is_system |-> TRUE],
     word_cost |-> I16(row.word_cost),
     cost_id |-> U16(row.left_id)]

WordEntry(row_id, row) ==
    [word_id |-> [id |-> U32(row_id), is_system |-> TRUE],
     word_cost |-> I16(row.word_cost),
     cost_id |-> U16(row.left_id)]

\* word_entry_map.entry(key).or_insert_with(Vec::new).push(e)
PushEntry(map, key, e) ==
    IF key \in DOMAIN map THEN [map EXCEPT ![key] = Append(@, e)]
    ELSE [k \in (DOMAIN map) \cup {key} |-> IF k = key THEN <<e>> ELSE map[k]]

EmptyMap == [k \in {} |-> <<>>]

\* iteration order of the BTreeMap: its n-th key (n from 1)
NthKey(map, n) ==
    CHOOSE k \in DOMAIN map : Cardinality({j \in DOMAIN map : StrLess(j, k)}) = n - 1

(***************************************************************************)
(* Entry/Detail Store Writer and Lexicon Index Builder                      *)
(***************************************************************************)
Word(row) ==
    <<row.pos_level1, row.pos_level2, row.pos_level3, row.pos_level4,
      row.conjugation_type, row.conjugate_form, row.base_form, row.reading,
      row.pronunciation>>

\* WordEntry::serialize: word_id.0 as u32, word_cost as i16, cost_id as u16
SerializeEntry(e) ==
    LittleEndian(e.word_id.id, 4) \o LittleEndian(U16(e.word_cost), 2)
        \o LittleEndian(e.cost_id, 2)

EntryLen == 8

DeserializeEntry(bs) ==
    [word_id |-> [id |-> FromLittleEndian(Slice(bs, 1, 4)), is_system |-> TRUE],
     word_cost |-> I16(FromLittleEndian(Slice(bs, 5, 2))),
     cost_id |-> FromLittleEndian(Slice(bs, 7, 2))]

CountBits == 5

CountFitsOffByOne(len) == len <= Pow2(CountBits)

\* the condition of the assert! on the number of entries of a key
CountFits(len) == len < Pow2(CountBits)

PackValNoShift(base, len) == BitOr(base, len)

\* (id << 5) | len on u32: the shift drops the bits that leave the 32
PackVal(base, len) == BitOr((base % Pow2(32 - CountBits)) * Pow2(CountBits), len)

\* the double array is opaque: its bytes stand for the (key bytes, value) pairs given
DoubleArrayBytes(ks) ==
    Flatten([k \in 1..Len(ks) |->
        LittleEndian(Len(ks[k][1]), 4) \o ks[k][1] \o LittleEndian(ks[k][2], 4)])

(***************************************************************************)
(* Cost Matrix Compiler                                                    *)
(***************************************************************************)
\* one line: split_whitespace().map(i32::from_str).collect::<Result<Vec<i32>, _>>()
ParseMatrixLine(line) ==
    LET toks == split_whitespace(line)
    IN IF \E k \in 1..Len(toks) : ~ParseI32(toks[k]).ok THEN [ok |-> FALSE, fields |-> <<>>]
       ELSE [ok |-> TRUE, fields |-> [k \in 1..Len(toks) |-> ParseI32(toks[k]).val]]

forward_size(header) == U32(header[1])

backward_size(header) == U32(header[2])

CostIndexTransposed(forward_id, backward_id, bsize) == 2 + (forward_id + backward_id * bsize)

\* 2 + (backward_id + forward_id * backward_size), a 0-based index into costs
CostIndex(forward_id, backward_id, bsize) == 2 + (backward_id + forward_id * bsize)

InitCostsZero(header, len) ==
    [k \in 1..len |-> IF k = 1 THEN I16(forward_size(header))
                      ELSE IF k = 2 THEN I16(backward_size(header))
                      ELSE 0]

\* vec![i16::max_value(); len] with the two header slots set
InitCosts(header, len) ==
    [k \in 1..len |-> IF k = 1 THEN I16(forward_size(header))
                      ELSE IF k = 2 THEN I16(backward_size(header))
                      ELSE I16Max]

\* write_i16::<LittleEndian> of every cost
SerializeCosts(cs) == Flatten([k \in 1..Len(cs) |-> LittleEndian(U16(cs[k]), 2)])

DeserializeCosts(bs) ==
    [k \in 1..(Len(bs) \div 2) |-> I16(FromLittleEndian(Slice(bs, 2 * k - 1, 2)))]

(***************************************************************************)
(* Output directory and buffered writers                                   *)
(***************************************************************************)
FileNames ==
    {"char_def.bin", "unk.bin", "dict.da", "dict.vals", "dict.words", "dict.wordsidx",
     "matrix.mtx"}

NoFile == [created |-> FALSE, data |-> <<>>]

NoBuffers == [f \in FileNames |-> <<>>]

\* File::create: the file exists and is empty
Create(fs, f) == [fs EXCEPT ![f] = [created |-> TRUE, data |-> <<>>]]

\* BufWriter::write_all
Write(w, f, bytes) == [w EXCEPT ![f] = @ \o bytes]

\* BufWriter::flush
Flush(fs, w, f) == [fs EXCEPT ![f] = [created |-> TRUE, data |-> @.data \o w[f]]]

\* Drop of every BufWriter alive when a function returns or unwinds
DropAll(fs, w) ==
    [f \in FileNames |->
        IF fs[f].created THEN [created |-> TRUE, data |-> fs[f].data \o w[f]] ELSE fs[f]]

\* the serialised objects of the character-definition component are opaque
OpaqueBytes == <<0>>

(***************************************************************************)
(* Inputs                                                                  *)
(***************************************************************************)
RECURSIVE Join(_, _)
Join(fields, sep) ==
    IF Len(fields) = 1 THEN fields[1]
    ELSE fields[1] \o <<sep>> \o Join(Tail(fields), sep)

CsvLine(surface, left, right, cost, tag) ==
    Join(<<surface, left, right, cost, <<78>>, tag, <<42>>, <<42>>, <<42>>, <<42>>,
           surface, <<82>>, <<80>>>>, Comma)

\* surface U+4EAC, which sorts behind the skip words: "<U+4EAC>,1,2,300,N,x,*,*,*,*,<U+4EAC>,R,P"
LineKanji == CsvLine(<<20140>>, <<49>>, <<50>>, <<51, 48, 48>>, <<120>>)

\* surface U+2014, word_cost -7
LineDash == CsvLine(<<8212>>, <<53>>, <<54>>, <<45, 55>>, <<121>>)

\* surface U+2015 (normalised to U+2014), left_id 70000, word_cost 40000
LineBar == CsvLine(<<8213>>, <<55, 48, 48, 48, 48>>, <<50>>, <<52, 48, 48, 48, 48>>, <<122>>)

\* surface is the first skip word
LineSkip == CsvLine(SKIP_WORDS[1], <<49>>, <<49>>, <<49>>, <<115>>)

\* "c,x,2,3,...": left_id is not a number
LineBadId == CsvLine(<<99>>, <<120>>, <<50>>, <<51>>, <<119>>)

\* "c,1,2,3": four fields
LineShort == Join(<<<<99>>, <<49>>, <<50>>, <<51>>>>, Comma)

CsvLines == {LineKanji, LineDash, LineBar, LineSkip, LineBadId, LineShort}

SeqsUpTo(S, n) == UNION {[1..k -> S] : k \in 0..n}

\* the lines ls in one file (k = 0) or in two files, the first holding k lines
SplitFiles(ls, k) ==
    IF k = 0 THEN <<ls>> ELSE <<SubSeq(ls, 1, k), SubSeq(ls, k + 1, Len(ls))>>

CsvInputs ==
    UNION {{SplitFiles(ls, k) : k \in 0..(IF ls = <<>> THEN 0 ELSE 1)} :
              ls \in SeqsUpTo(CsvLines, MaxRows)}

Copies(x, n) == [k \in 1..n |-> x]

\* 30 to 32 rows of one surface form, then up to BoundaryExtra rows that normalise
\* to the same surface form (x = LineDash) or not (x = LineSkip)
BoundaryInputs ==
    {<<Copies(x, n) \o Copies(LineBar, m)>> :
        x \in {LineDash, LineSkip}, n \in 30..32, m \in 0..BoundaryExtra}

\* "3 3", "0 0 100", "1 2 -50": the scenario of the specification
ScenarioMatrix == << <<51, 32, 51>>, <<48, 32, 48, 32, 49, 48, 48>>,
                    <<49, 32, 50, 32, 45, 53, 48>> >>

\* "3 3", "0 0 100", "1 2 -50", "1 2 40000", "x 0 0", "7", "2 1 5 9"
MatrixLines ==
    {<<51, 32, 51>>, <<48, 32, 48, 32, 49, 48, 48>>, <<49, 32, 50, 32, 45, 53, 48>>,
     <<49, 32, 50, 32, 52, 48, 48, 48, 48>>, <<120, 32, 48, 32, 48>>, <<55>>,
     <<50, 32, 49, 32, 53, 32, 57>>}

MatrixInputs == SeqsUpTo(MatrixLines, MaxMatrixLines)

(***************************************************************************)
(* build_dictionary                                                        *)
(***************************************************************************)
InitWith(csvSet, matrixSet) ==
    /\ csv_files \in csvSet
    /\ matrix_def \in matrixSet
    /\ pc = "create_dir"
    /\ result = "running"
    /\ files = [f \in FileNames |-> NoFile]
    /\ wtr = NoBuffers
    /\ lines = <<>>
    /\ rows = <<>>
    /\ word_entry_map = EmptyMap
    /\ words_buffer = <<>>
    /\ keyset = <<>>
    /\ id = 0
    /\ lastlen = 0
    /\ idx = 0
    /\ mlines = <<>>
    /\ costs = <<>>

Init == InitWith(CsvInputs, {ScenarioMatrix, <<>>})

InitMatrix == InitWith({<<<<LineKanji>>>>}, MatrixInputs)

InitBoundary == InitWith(BoundaryInputs, {ScenarioMatrix})

inputVars == <<csv_files, matrix_def>>

dictVars == <<lines, rows, word_entry_map, words_buffer, keyset, id, lastlen>>

matrixVars == <<mlines, costs>>

\* return Err(kind), or unwind from a panic: the writers alive are dropped
Return(kind, fs, w) ==
    /\ pc' = "done"
    /\ result' = kind
    /\ files' = DropAll(fs, w)
    /\ wtr' = NoBuffers

Goto(next) == pc' = next /\ result' = result

CreateDir ==
    /\ pc = "create_dir"
    /\ \E ok \in BOOLEAN :
        IF ok THEN Goto("chardef") /\ UNCHANGED <<files, wtr>>
        ELSE Return("Io", files, wtr)
    /\ UNCHANGED <<inputVars, dictVars, matrixVars, idx>>

\* the character-definition component is a collaborator: it succeeds or reports an error
BuildChardef ==
    /\ pc = "chardef"
    /\ \E outcome \in {"Ok", "Io", "Parse"} :
        IF outcome = "Ok"
        THEN /\ Goto("unk")
             /\ files' = Flush(Create(files, "char_def.bin"),
                               Write(wtr, "char_def.bin", OpaqueBytes), "char_def.bin")
             /\ wtr' = wtr
        ELSE Return(outcome, files, wtr)
    /\ UNCHANGED <<inputVars, dictVars, matrixVars, idx>>

BuildUnk ==
    /\ pc = "unk"
    /\ \E outcome \in {"Ok", "Io", "Parse"} :
        IF outcome = "Ok"
        THEN /\ Goto("dict_read")
             /\ files' = Flush(Create(files, "unk.bin"),
                               Write(wtr, "unk.bin", OpaqueBytes), "unk.bin")
             /\ wtr' = wtr
        ELSE Return(outcome, files, wtr)
    /\ UNCHANGED <<inputVars, dictVars, matrixVars, idx>>

(***************************************************************************)
(* build_dict                                                              *)
(***************************************************************************)
\* glob the csv files, read them, split them into lines, normalise the lines
DictRead ==
    /\ pc = "dict_read"
    /\ \E ok \in BOOLEAN :
        IF ok
        THEN /\ Goto("dict_parse")
             /\ lines' = ReadLines(csv_files)
             /\ UNCHANGED <<files, wtr>>
        ELSE Return("Io", files, wtr) /\ lines' = lines
    /\ UNCHANGED <<inputVars, rows, word_entry_map, words_buffer, keyset, id, lastlen,
                   matrixVars, idx>>

\* parse every line, then sort the rows by surface form
DictParse ==
    /\ pc = "dict_parse"
    /\ LET parsed == ParseAll(lines) IN
        IF parsed.tag = "Ok"
        THEN /\ Goto("dict_create")
             /\ rows' = SortByKey(parsed.rows)
             /\ UNCHANGED <<files, wtr>>
        ELSE /\ Return(IF parsed.tag = "panic" THEN "panic_index" ELSE "Parse", files, wtr)
             /\ rows' = rows
    /\ UNCHANGED <<inputVars, lines, word_entry_map, words_buffer, keyset, id, lastlen,
                   matrixVars, idx>>

\* File::create of dict.da, then of dict.vals
DictCreate ==
    /\ pc = "dict_create"
    /\ \E outcome \in {"Ok", "FailDa", "FailVals"} :
        IF outcome = "Ok"
        THEN /\ Goto("dict_aggregate")
             /\ files' = Create(Create(files, "dict.da"), "dict.vals")
             /\ wtr' = wtr
        ELSE IF outcome = "FailDa" THEN Return("Io", files, wtr)
        ELSE Return("Io", Create(files, "dict.da"), wtr)
    /\ idx' = 1
    /\ UNCHANGED <<inputVars, dictVars, matrixVars>>

\* one turn of the loop over rows.iter().enumerate(): row_id = idx - 1
DictAggregate ==
    /\ pc = "dict_aggregate"
    /\ IF idx <= Len(rows)
       THEN /\ word_entry_map' =
                 IF IsSkipWord(rows[idx].surface_form) THEN word_entry_map
                 ELSE PushEntry(word_entry_map, rows[idx].surface_form,
                                WordEntry(idx - 1, rows[idx]))
            /\ idx' = idx + 1
            /\ Goto("dict_aggregate")
       ELSE /\ Goto("dict_create_words")
            /\ UNCHANGED <<word_entry_map, idx>>
    /\ UNCHANGED <<inputVars, files, wtr, lines, rows, words_buffer, keyset, id, lastlen,
                   matrixVars>>

\* File::create of dict.words, then of dict.wordsidx
DictCreateWords ==
    /\ pc = "dict_create_words"
    /\ \E outcome \in {"Ok", "FailWords", "FailWordsIdx"} :
        IF outcome = "Ok"
        THEN /\ Goto("dict_words")
             /\ files' = Create(Create(files, "dict.words"), "dict.wordsidx")
             /\ wtr' = wtr
        ELSE IF outcome = "FailWords" THEN Return("Io", files, wtr)
        ELSE Return("Io", Create(files, "dict.words"), wtr)
    /\ idx' = 1
    /\ UNCHANGED <<inputVars, dictVars, matrixVars>>

\* one turn of the loop over rows.iter(): the offset goes to dict.wordsidx, the
\* serialised detail record to words_buffer
DictWords ==
    /\ pc = "dict_words"
    /\ IF idx <= Len(rows)
       THEN /\ wtr' = Write(wtr, "dict.wordsidx", LittleEndian(U32(Len(words_buffer)), 4))
            /\ words_buffer' = words_buffer \o SerializeWord(Word(rows[idx]))
            /\ idx' = idx + 1
            /\ Goto("dict_words")
       ELSE /\ Goto("dict_flush_words")
            /\ UNCHANGED <<wtr, words_buffer, idx>>
    /\ UNCHANGED <<inputVars, files, lines, rows, word_entry_map, keyset, id, lastlen,
                   matrixVars>>

\* write_all of words_buffer, flush of dict.words and of dict.wordsidx
DictFlushWords ==
    /\ pc = "dict_flush_words"
    /\ \E ok \in BOOLEAN :
        IF ok
        THEN /\ Goto("dict_keyset")
             /\ files' = Flush(Flush(files, Write(wtr, "dict.words", words_buffer),
                                     "dict.words"), wtr, "dict.wordsidx")
             /\ wtr' = [wtr EXCEPT !["dict.words"] = <<>>, !["dict.wordsidx"] = <<>>]
        ELSE Return("Io", files, wtr)
    /\ idx' = 1
    /\ UNCHANGED <<inputVars, dictVars, matrixVars>>

\* one turn of the loop over &word_entry_map, in key order
DictKeyset ==
    /\ pc = "dict_keyset"
    /\ IF idx <= Cardinality(DOMAIN word_entry_map)
       THEN LET key == NthKey(word_entry_map, idx)
                len == Len(word_entry_map[key])
            IN IF CountFits(len)
               THEN /\ keyset' = Append(keyset, <<as_bytes(key), PackVal(id, len)>>)
                    /\ id' = id + len
                    /\ lastlen' = lastlen + len
                    /\ idx' = idx + 1
                    /\ Goto("dict_keyset")
                    /\ UNCHANGED <<files, wtr>>
               ELSE /\ Return("panic_assert", files, wtr)
                    /\ UNCHANGED <<keyset, id, lastlen, idx>>
       ELSE /\ Goto("dict_build_da")
            /\ UNCHANGED <<files, wtr, keyset, id, lastlen, idx>>
    /\ UNCHANGED <<inputVars, lines, rows, word_entry_map, words_buffer, matrixVars>>

\* DoubleArrayBuilder::build gives the bytes or None; the bytes go to the writer of dict.da
DictBuildDa ==
    /\ pc = "dict_build_da"
    /\ \E built \in BOOLEAN :
        IF built
        THEN /\ Goto("dict_vals")
             /\ wtr' = Write(wtr, "dict.da", DoubleArrayBytes(keyset))
             /\ files' = files
        ELSE Return("Io", files, wtr)
    /\ idx' = 1
    /\ UNCHANGED <<inputVars, dictVars, matrixVars>>

\* one turn of the loop over word_entry_map.values(): the entries of one key
DictVals ==
    /\ pc = "dict_vals"
    /\ IF idx <= Cardinality(DOMAIN word_entry_map)
       THEN LET es == word_entry_map[NthKey(word_entry_map, idx)]
            IN /\ wtr' = Write(wtr, "dict.vals",
                               Flatten([k \in 1..Len(es) |-> SerializeEntry(es[k])]))
               /\ idx' = idx + 1
               /\ Goto("dict_vals")
       ELSE /\ Goto("dict_flush_vals")
            /\ UNCHANGED <<wtr, idx>>
    /\ UNCHANGED <<inputVars, files, dictVars, matrixVars>>

\* flush of dict.vals; build_dict returns and its writers are dropped
DictFlushVals ==
    /\ pc = "dict_flush_vals"
    /\ \E ok \in BOOLEAN :
        IF ok
        THEN /\ Goto("matrix_read")
             /\ files' = DropAll(files, wtr)
             /\ wtr' = NoBuffers
        ELSE Return("Io", files, wtr)
    /\ UNCHANGED <<inputVars, dictVars, matrixVars, idx>>

(***************************************************************************)
(* build_cost_matrix                                                       *)
(***************************************************************************)
\* the lines of matrix.def parsed in order; the first token that is no i32 ends
\* the function with Err(Parse)
MatrixRead ==
    /\ pc = "matrix_read"
    /\ \E ok \in BOOLEAN :
        IF ~ok THEN Return("Io", files, wtr) /\ mlines' = mlines
        ELSE IF \E k \in 1..Len(matrix_def) : ~ParseMatrixLine(matrix_def[k]).ok
        THEN Return("Parse", files, wtr) /\ mlines' = mlines
        ELSE /\ Goto("matrix_alloc")
             /\ mlines' = [k \in 1..Len(matrix_def) |-> ParseMatrixLine(matrix_def[k]).fields]
             /\ UNCHANGED <<files, wtr>>
    /\ UNCHANGED <<inputVars, dictVars, costs, idx>>

\* the header line and the allocation of costs
MatrixAlloc ==
    /\ pc = "matrix_alloc"
    /\ IF mlines = <<>> THEN Return("Content", files, wtr) /\ costs' = costs
       ELSE IF Len(mlines[1]) < 2 THEN Return("panic_index", files, wtr) /\ costs' = costs
       ELSE /\ Goto("matrix_data")
            /\ costs' = InitCosts(mlines[1],
                                  2 + U32(forward_size(mlines[1]) * backward_size(mlines[1])))
            /\ UNCHANGED <<files, wtr>>
    /\ idx' = 2
    /\ UNCHANGED <<inputVars, dictVars, mlines>>

\* one turn of the loop over the data lines
MatrixData ==
    /\ pc = "matrix_data"
    /\ IF idx <= Len(mlines)
       THEN LET fields == mlines[idx] IN
            IF Len(fields) < 3
            THEN Return("panic_index", files, wtr) /\ UNCHANGED <<costs, idx>>
            ELSE LET at == CostIndex(U32(fields[1]), U32(fields[2]), backward_size(mlines[1]))
                 IN IF at >= Len(costs)
                    THEN Return("panic_index", files, wtr) /\ UNCHANGED <<costs, idx>>
                    ELSE /\ costs' = [costs EXCEPT ![at + 1] = I16(U16(fields[3]))]
                         /\ idx' = idx + 1
                         /\ Goto("matrix_data")
                         /\ UNCHANGED <<files, wtr>>
       ELSE /\ Goto("matrix_write")
            /\ UNCHANGED <<files, wtr, costs, idx>>
    /\ UNCHANGED <<inputVars, dictVars, mlines>>

\* File::create of matrix.mtx, the costs written and flushed; build_dictionary returns Ok
MatrixWrite ==
    /\ pc = "matrix_write"
    /\ \E ok \in BOOLEAN :
        IF ok
        THEN /\ pc' = "done"
             /\ result' = "Ok"
             /\ files' = Flush(Create(files, "matrix.mtx"),
                               Write(wtr, "matrix.mtx", SerializeCosts(costs)), "matrix.mtx")
             /\ wtr' = wtr
        ELSE Return("Io", files, wtr)
    /\ UNCHANGED <<inputVars, dictVars, matrixVars, idx>>

Next ==
    \/ CreateDir
    \/ BuildChardef
    \/ BuildUnk
    \/ DictRead
    \/ DictParse
    \/ DictCreate
    \/ DictAggregate
    \/ DictCreateWords
    \/ DictWords
    \/ DictFlushWords
    \/ DictKeyset
    \/ DictBuildDa
    \/ DictVals
    \/ DictFlushVals
    \/ MatrixRead
    \/ MatrixAlloc
    \/ MatrixData
    \/ MatrixWrite

Spec == Init /\ [][Next]_vars

SpecMatrix == InitMatrix /\ [][Next]_vars

SpecBoundary == InitBoundary /\ [][Next]_vars

(***************************************************************************)
(* What the properties read: the input as given, the files as written      *)
(***************************************************************************)
Surface(line) == Split(line, Comma)[1]

SkipSet == {SKIP_WORDS[k] : k \in 1..Len(SKIP_WORDS)}

LineNos == 1..Len(lines)

Kept == {j \in LineNos : Surface(lines[j]) \notin SkipSet}

AllLinesParse == \A j \in LineNos : from_line(lines[j]).tag = "Ok"

\* line k comes before line j when the lines are put in surface-form order and
\* lines of equal surface form keep their order
StableBefore(k, j) ==
    \/ StrLess(Surface(lines[k]), Surface(lines[j]))
    \/ Surface(lines[k]) = Surface(lines[j]) /\ k < j

\* 0-based position of line j in that order
Rank(j) == Cardinality({k \in LineNos : StableBefore(k, j)})

\* 0-based position of the entry of kept line j among the entries
EntryPos(j) == Cardinality({k \in Kept : StableBefore(k, j)})

\* build_dict has returned Ok
DictBuilt ==
    \/ pc \in {"matrix_read", "matrix_alloc", "matrix_data", "matrix_write"}
    \/ pc = "done" /\ result = "Ok"

\* the loop that fills keyset has ended
KeysetComplete ==
    \/ pc \in {"dict_build_da", "dict_vals", "dict_flush_vals"}
    \/ DictBuilt

WordsIdxAt(i) == FromLittleEndian(Slice(files["dict.wordsidx"].data, 4 * i + 1, 4))

DetailAt(i) == DeserializeWord(files["dict.words"].data, WordsIdxAt(i))

EntryAt(n) == DeserializeEntry(Slice(files["dict.vals"].data, EntryLen * n + 1, EntryLen))

Mtx == DeserializeCosts(files["matrix.mtx"].data)

(***************************************************************************)
(* Properties                                                              *)
(***************************************************************************)

\* C1: when the keyset is handed to the index builder it holds, for every surface
\* form k that is not a skip word, exactly one pair (bytes of k, v), where the low
\* 5 bits of v are the number of lines with surface form k and the high bits the
\* number of kept lines with a surface form smaller than k; and it holds no other pair.
C1_PackedValue ==
    KeysetComplete =>
        /\ \A j \in Kept :
             LET k == Surface(lines[j])
                 hits == {n \in 1..Len(keyset) : keyset[n][1] = as_bytes(k)}
             IN /\ Cardinality(hits) = 1
                /\ \A n \in hits :
                     /\ keyset[n][2] % 32 = Cardinality({i \in LineNos : Surface(lines[i]) = k})
                     /\ keyset[n][2] \div 32 =
                            Cardinality({i \in Kept : StrLess(Surface(lines[i]), k)})
        /\ Len(keyset) = Cardinality({Surface(lines[j]) : j \in Kept})

C1_Witness ==
    /\ pc = "dict_build_da"
    /\ \E n \in 1..Len(keyset) : keyset[n][2] % 32 = 2 /\ keyset[n][2] \div 32 = 1

\* C2: once build_dict has returned Ok, dict.vals holds one 8-byte record for every
\* input line whose surface form is not a skip word, and nothing else.
C2_EntryCount ==
    DictBuilt =>
        /\ Len(files["dict.vals"].data) % EntryLen = 0
        /\ Len(files["dict.vals"].data) \div EntryLen
              = Len(lines) - Cardinality(LineNos \ Kept)

C2_Witness ==
    /\ DictBuilt
    /\ Cardinality(LineNos \ Kept) = 1
    /\ Cardinality(Kept) = 2

MatrixWritten == pc = "done" /\ result = "Ok"

DataNos == 2..Len(matrix_def)

Fields(k) == ParseMatrixLine(matrix_def[k]).fields

IdsInside ==
    \A k \in DataNos :
        /\ Fields(k)[1] >= 0 /\ Fields(k)[1] < Fields(1)[1]
        /\ Fields(k)[2] >= 0 /\ Fields(k)[2] < Fields(1)[2]

Naming(f, b) == {k \in DataNos : Fields(k)[1] = f /\ Fields(k)[2] = b}

SlotOf(f, b) == Mtx[2 + b + f * Fields(1)[2] + 1]

\* C3 as stated: once matrix.mtx is written from a matrix.def whose ids lie inside
\* the sizes of its header, the slot 2 + b + f * backward_size holds the cost of every
\* data line (f, b, cost), and 32767 where no data line names (f, b).
C3_SlotHoldsGivenCost ==
    (MatrixWritten /\ IdsInside) =>
        \A f \in 0..(Fields(1)[1] - 1), b \in 0..(Fields(1)[2] - 1) :
            IF Naming(f, b) = {} THEN SlotOf(f, b) = I16Max
            ELSE \A k \in Naming(f, b) : SlotOf(f, b) = Fields(k)[3]

\* C3 amended: the slot holds the cost of the last data line that names (f, b),
\* reduced to a signed 16-bit value, and 32767 where no data line names (f, b).
C3_SlotHoldsLastCost16 ==
    (MatrixWritten /\ IdsInside) =>
        \A f \in 0..(Fields(1)[1] - 1), b \in 0..(Fields(1)[2] - 1) :
            IF Naming(f, b) = {} THEN SlotOf(f, b) = I16Max
            ELSE LET last == CHOOSE k \in Naming(f, b) : \A j \in Naming(f, b) : j <= k
                 IN SlotOf(f, b) = I16(Fields(last)[3])

C3_Witness ==
    /\ MatrixWritten
    /\ IdsInside
    /\ Len(matrix_def) = 3
    /\ Fields(1) = <<3, 3>>
    /\ Fields(2) = <<1, 2, 0 - 50>>
    /\ Fields(3) = <<1, 2, 40000>>
    /\ SlotOf(1, 2) = 40000 - 65536

\* C4 as stated: "3 3", "0 0 100", "1 2 -50" gives the 12 values
\* [3, 3, 100, MAX x 8, -50].
C4_ScenarioTwelve ==
    (MatrixWritten /\ matrix_def = ScenarioMatrix) =>
        Mtx = <<3, 3, 100, I16Max, I16Max, I16Max, I16Max, I16Max, I16Max, I16Max, I16Max,
                0 - 50>>

\* C4 amended: it gives the 11 values [3, 3, 100, MAX x 4, -50, MAX x 3]: -50 is at
\* index 7 = 2 + 2 + 1 * 3.
C4_ScenarioEleven ==
    (MatrixWritten /\ matrix_def = ScenarioMatrix) =>
        Mtx = <<3, 3, 100, I16Max, I16Max, I16Max, I16Max, 0 - 50, I16Max, I16Max, I16Max>>

C4_Witness == MatrixWritten /\ matrix_def = ScenarioMatrix /\ Len(Mtx) = 11

CountOf(j) == Cardinality({i \in LineNos : Surface(lines[i]) = Surface(lines[j])})

TooMany == AllLinesParse /\ \E j \in Kept : CountOf(j) >= 32

\* C6: the assert on the entry count fails only for a surface form with 32 or more
\* entries; an input in which a kept surface form has 32 or more lines never gets
\* past that check and never ends Ok; every count handed to the index builder is
\* 31 or less.
C6_CountLimit ==
    /\ result = "panic_assert" => TooMany
    /\ TooMany => ~KeysetComplete /\ result # "Ok"
    /\ (TooMany /\ pc = "done") => result \in {"panic_assert", "Io"}
    /\ KeysetComplete => \A j \in Kept : CountOf(j) <= 31
    /\ KeysetComplete => \A n \in 1..Len(keyset) : keyset[n][2] % 32 <= 31

C6_Witness ==
    /\ pc = "done"
    /\ result = "Ok"
    /\ \E j \in Kept : CountOf(j) = 31
    /\ \E n \in 1..Len(keyset) : keyset[n][2] = 31

MatrixDecided ==
    pc = "done" /\ result # "Io" /\ files["dict.vals"].data # <<>>

MalformedLine(k) ==
    \/ ~ParseMatrixLine(matrix_def[k]).ok
    \/ Len(split_whitespace(matrix_def[k])) # (IF k = 1 THEN 2 ELSE 3)

\* C7 as stated: when build_cost_matrix has read matrix.def, a malformed line (a
\* token that is no integer, a header line without exactly 2 integers, a data line
\* without exactly 3) gives a Parse error and a missing header line a Content error.
\* Under SpecMatrix the one csv row is kept, so a non-empty dict.vals and a result
\* other than Io mean that build_cost_matrix has read its input.
C7_MalformedGivesParseError ==
    MatrixDecided =>
        /\ matrix_def = <<>> => result = "Content"
        /\ (\E k \in 1..Len(matrix_def) : MalformedLine(k)) => result = "Parse"

TooFewFields(line) == Len(Split(line, Comma)) < FieldCount

BadNumber(line) ==
    LET fields == Split(line, Comma) IN
        \/ Len(fields) >= 2 /\ ~ParseU32(fields[2]).ok
        \/ Len(fields) >= 3 /\ ~ParseU32(fields[3]).ok
        \/ Len(fields) >= 4 /\ ~ParseI32(fields[4]).ok

\* C8 as stated: from_line gives a Parse error for every line with fewer than 13
\* fields and for every line whose left_id, right_id or word_cost is no integer.
C8_ShortLineGivesParseError ==
    \A j \in LineNos :
        (TooFewFields(lines[j]) \/ BadNumber(lines[j])) => from_line(lines[j]).tag = "Parse"

FirstBadLine == CHOOSE j \in LineNos :
                    /\ from_line(lines[j]).tag # "Ok"
                    /\ \A i \in 1..(j - 1) : from_line(lines[i]).tag = "Ok"

DictFiles == {"dict.da", "dict.vals", "dict.words", "dict.wordsidx", "matrix.mtx"}

\* C9 as stated: when a csv line fails to parse, build_dictionary is aborted and none
\* of the seven output files has been created.
C9_NoFileOnParseFailure ==
    (pc = "done" /\ ~AllLinesParse) =>
        /\ result \in {"Parse", "panic_index"}
        /\ \A f \in FileNames : ~files[f].created

\* C9 amended: when a csv line fails to parse, build_dictionary stops there: with
\* Err(Parse) when from_line returns it for the first such line, with the indexing
\* panic when that line lacks a field; none of dict.da, dict.vals, dict.words,
\* dict.wordsidx, matrix.mtx has been created, while char_def.bin and unk.bin have
\* been written.
C9_NoDictFileOnParseFailure ==
    ~AllLinesParse =>
        /\ pc \in {"dict_parse", "done"}
        /\ \A f \in DictFiles : ~files[f].created
        /\ files["char_def.bin"] = [created |-> TRUE, data |-> OpaqueBytes]
        /\ files["unk.bin"] = [created |-> TRUE, data |-> OpaqueBytes]
        /\ pc = "done" =>
             result = (IF from_line(lines[FirstBadLine]).tag = "Parse"
                       THEN "Parse" ELSE "panic_index")

C9_Witness ==
    /\ pc = "done"
    /\ result = "Parse"
    /\ Len(lines) = 3
    /\ from_line(lines[1]).tag = "Ok"
    /\ from_line(lines[3]).tag = "Parse"

\* C10: once build_dict has returned Ok, the record of dict.vals that stands for the
\* kept input line j carries the cost_id and word_cost of line j, and its word_id,
\* taken through dict.wordsidx into dict.words, gives the detail record of line j.
C10_WordIdResolves ==
    DictBuilt =>
        \A j \in Kept :
            LET e == EntryAt(EntryPos(j))
                row == from_line(lines[j]).row
            IN /\ e.cost_id = U16(row.left_id)
               /\ e.word_cost = I16(row.word_cost)
               /\ e.word_id.id < Len(lines)
               /\ DetailAt(e.word_id.id) = Word(row)

C10_Witness ==
    /\ DictBuilt
    /\ Len(lines) = 3
    /\ Cardinality(Kept) = 2
    /\ 2 \notin Kept
    /\ Rank(1) = 2
    /\ EntryAt(1).word_id.id = 2
    /\ EntryAt(0).word_id.id = 0

====
